---------------------------- MODULE Spec2Model ----------------------------
(***************************************************************************)
(* A model of modules/heuristics.py: the ten query heuristics of           *)
(* QueryHeuristics, the pipeline validate_and_fix_query that runs them in  *)
(* order, and the two checks of ResultHeuristics.                          *)
(*                                                                         *)
(* A Python str is a sequence of one-character strings; S("abc") is the    *)
(* literal <<"a", "b", "c">>.  The inputs are ASCII, so \w, \d, \s and     *)
(* re.IGNORECASE are modelled on ASCII.  A fix record is the string the    *)
(* code formats, character by character.                                   *)
(*                                                                         *)
(* Scans are written over match positions (the least position at or after  *)
(* the end of the previous match), as re.sub, re.findall and str.replace   *)
(* scan: left to right, without overlap.                                   *)
(***************************************************************************)
EXTENDS Integers, Sequences, FiniteSets, TLC

VARIABLES
    pc,             \* position of the caller: the index of the next heuristic, or a label
    original_query, \* validate_and_fix_query: original_query (line 16)
    query,          \* the query as transformed so far
    fixes,          \* the fixes of the last heuristic that ran
    applied_fixes,  \* validate_and_fix_query: applied_fixes (line 17)
    current_year,   \* datetime.datetime.now().year, as the system clock gives it
    max_length,     \* limit_query_length: max_length
    tool_name,      \* validate_tool_output: tool_name
    output,         \* validate_tool_output: output
    response,       \* check_for_hallucinations: response
    result          \* what a ResultHeuristics call returned (or the exception it raised)

vars == <<pc, original_query, query, fixes, applied_fixes, current_year,
          max_length, tool_name, output, response, result>>

-----------------------------------------------------------------------------
(* Strings and character classes                                            *)

S(s) == [i \in 1..Len(s) |-> SubSeq(s, i, i)]

LowerSeq == S("abcdefghijklmnopqrstuvwxyz")
UpperSeq == S("ABCDEFGHIJKLMNOPQRSTUVWXYZ")
DigitSeq == S("0123456789")

Lower == {LowerSeq[i] : i \in 1..26}
Upper == {UpperSeq[i] : i \in 1..26}
Digit == {DigitSeq[i] : i \in 1..10}
Letter == Lower \cup Upper
\* \w
WordChar == Letter \cup Digit \cup {"_"}
\* \s
Whitespace == {" ", "\t", "\n", "\r", "\f"}
HexDigit == Digit \cup {"a", "b", "c", "d", "e", "f", "A", "B", "C", "D", "E", "F"}

LowerOf == [c \in Upper |-> LowerSeq[CHOOSE i \in 1..26 : UpperSeq[i] = c]]

\* str.lower() on one character
ToLower(c) == IF c \in Upper THEN LowerOf[c] ELSE c

\* str.lower()
lower(s) == [i \in 1..Len(s) |-> ToLower(s[i])]

Min(set) == CHOOSE x \in set : \A y \in set : x <= y
Max(set) == CHOOSE x \in set : \A y \in set : x >= y

\* s[i:j] of Python with 1-based i and exclusive j: the characters i .. j-1
Slice(s, i, j) == SubSeq(s, i, j - 1)

\* \b at the gap before position i (i in 1..Len(s)+1)
IsWordBoundary(s, i) ==
    ((i > 1) /\ (s[i - 1] \in WordChar)) # ((i <= Len(s)) /\ (s[i] \in WordChar))

\* the literal w stands at position i of s (re.escape(w), optionally re.IGNORECASE)
LitAt(s, i, w, ignorecase) ==
    /\ i >= 1
    /\ i + Len(w) - 1 <= Len(s)
    /\ \A k \in 1..Len(w) :
         IF ignorecase THEN ToLower(s[i + k - 1]) = ToLower(w[k])
                       ELSE s[i + k - 1] = w[k]

\* re.search(literal, s): the literal occurs somewhere
Contains(s, w, ignorecase) == \E i \in 1..Len(s) : LitAt(s, i, w, ignorecase)

\* r'\b' + re.escape(word) + r'\b' matches at position i, re.IGNORECASE
WordAt(s, i, word) ==
    /\ LitAt(s, i, word, TRUE)
    /\ IsWordBoundary(s, i)
    /\ IsWordBoundary(s, i + Len(word))

\* re.search(r'\b' + re.escape(word) + r'\b', s, re.IGNORECASE)
WordSearch(s, word) == \E i \in 1..Len(s) : WordAt(s, i, word)

\* re.sub(r'\b' + re.escape(word) + r'\b', repl, s, flags=re.IGNORECASE), from position from
RECURSIVE WordSubFrom(_, _, _, _)
WordSubFrom(s, from, word, repl) ==
    LET starts == {i \in from..Len(s) : WordAt(s, i, word)}
    IN  IF starts = {} THEN Slice(s, from, Len(s) + 1)
        ELSE LET i == Min(starts)
             IN  Slice(s, from, i) \o repl \o WordSubFrom(s, i + Len(word), word, repl)

WordSub(s, word, repl) == WordSubFrom(s, 1, word, repl)

\* str.replace(old, new) from position from: every occurrence, left to right, no overlap
RECURSIVE ReplaceFrom(_, _, _, _)
ReplaceFrom(s, from, old, new) ==
    LET starts == {i \in from..Len(s) : LitAt(s, i, old, FALSE)}
    IN  IF starts = {} THEN Slice(s, from, Len(s) + 1)
        ELSE LET i == Min(starts)
             IN  Slice(s, from, i) \o new \o ReplaceFrom(s, i + Len(old), old, new)

\* s.replace(old, new), old not empty
Replace(s, old, new) == ReplaceFrom(s, 1, old, new)

-----------------------------------------------------------------------------
(* Heuristic 1: fix_typos                                                   *)

common_typos == <<
    <<S("clendar"), S("calendar")>>,
    <<S("calander"), S("calendar")>>,
    <<S("schedual"), S("schedule")>>,
    <<S("scedule"), S("schedule")>>,
    <<S("emaill"), S("email")>>,
    <<S("emial"), S("email")>>,
    <<S("docuemnt"), S("document")>>,
    <<S("documnet"), S("document")>>,
    <<S("serach"), S("search")>>,
    <<S("summery"), S("summary")>>,
    <<S("summerize"), S("summarize")>> >>

TypoFix(typo, correction) ==
    S("Corrected typo: '") \o typo \o S("' to '") \o correction \o S("'")

\* the loop of lines 56-59 from entry k on, with the query and the fixes so far
RECURSIVE fix_typos_loop(_, _, _)
fix_typos_loop(k, corrected_query, fs) ==
    IF k > Len(common_typos) THEN <<corrected_query, fs>>
    ELSE LET typo == common_typos[k][1]
             correction == common_typos[k][2]
         IN  IF WordSearch(corrected_query, typo)
             THEN fix_typos_loop(k + 1, WordSub(corrected_query, typo, correction),
                                 Append(fs, TypoFix(typo, correction)))
             ELSE fix_typos_loop(k + 1, corrected_query, fs)

fix_typos(q) == fix_typos_loop(1, q, <<>>)

-----------------------------------------------------------------------------
(* Heuristic 2: remove_banned_words                                         *)

banned_words == <<
    S("hack"), S("exploit"), S("vulnerability"), S("illegal"), S("password"),
    S("credit card"), S("ssn"), S("social security"), S("porn"), S("xxx") >>

FILTERED == S("[FILTERED]")

BannedFix(word) == S("Removed banned word: '") \o word \o S("'")

\* the loop of lines 73-76 from word k on
RECURSIVE remove_banned_words_loop(_, _, _)
remove_banned_words_loop(k, clean_query, fs) ==
    IF k > Len(banned_words) THEN <<clean_query, fs>>
    ELSE LET word == banned_words[k]
         IN  IF WordSearch(clean_query, word)
             THEN remove_banned_words_loop(k + 1, WordSub(clean_query, word, FILTERED),
                                           Append(fs, BannedFix(word)))
             ELSE remove_banned_words_loop(k + 1, clean_query, fs)

remove_banned_words(q) == remove_banned_words_loop(1, q, <<>>)

-----------------------------------------------------------------------------
(* Heuristic 3: normalize_date_formats                                      *)

\* str(n) for n >= 0
RECURSIVE IntToStr(_)
IntToStr(n) == IF n < 10 THEN <<DigitSeq[n + 1]>>
               ELSE IntToStr(n \div 10) \o <<DigitSeq[(n % 10) + 1]>>

AllDigits(s, i, n) == /\ i >= 1
                      /\ i + n - 1 <= Len(s)
                      /\ \A k \in i..(i + n - 1) : s[k] \in Digit

\* str.zfill(2) of one or two digits
zfill2(s) == IF Len(s) < 2 THEN <<"0">> \o s ELSE s

\* (\d{1,2})/(\d{1,2})/ at position i: the lengths <<m, d>> of month and day the
\* greedy match takes (two digits before one), or <<0, 0>>
DateMonthDay(s, i) ==
    LET ok(m, d) == /\ AllDigits(s, i, m)
                    /\ LitAt(s, i + m, <<"/">>, FALSE)
                    /\ AllDigits(s, i + m + 1, d)
                    /\ LitAt(s, i + m + 1 + d, <<"/">>, FALSE)
                    /\ AllDigits(s, i + m + d + 2, 2)
    IN  IF ok(2, 2) THEN <<2, 2>>
        ELSE IF ok(2, 1) THEN <<2, 1>>
        ELSE IF ok(1, 2) THEN <<1, 2>>
        ELSE IF ok(1, 1) THEN <<1, 1>>
        ELSE <<0, 0>>

\* (\d{2}|\d{4}) at position y: the alternatives are tried in order, \d{2} first
DateYearLen(s, y) == IF AllDigits(s, y, 2) THEN 2
                     ELSE IF AllDigits(s, y, 4) THEN 4
                     ELSE 0

DateFix(month, day, year) ==
    S("Normalized date format: ") \o month \o <<"/">> \o day \o <<"/">>
        \o SubSeq(year, Len(year) - 1, Len(year)) \o S(" to ")
        \o year \o <<"-">> \o month \o <<"-">> \o day

\* date_replacer (lines 88-100) on the match at position i: <<replacement, fix, end>>
date_replacer(s, i, year_now) ==
    LET md == DateMonthDay(s, i)
        m == md[1]
        d == md[2]
        y == i + m + d + 2
        ylen == DateYearLen(s, y)
        month == zfill2(Slice(s, i, i + m))
        day == zfill2(Slice(s, i + m + 1, i + m + 1 + d))
        year0 == Slice(s, y, y + ylen)
        century == SubSeq(IntToStr(year_now), 1, 2)
        year == IF Len(year0) = 2 THEN century \o year0 ELSE year0
    IN  <<year \o <<"-">> \o month \o <<"-">> \o day, DateFix(month, day, year), y + ylen>>

\* re.sub(date_pattern, date_replacer, query) from position from (line 102)
RECURSIVE DateSubFrom(_, _, _, _)
DateSubFrom(s, from, year_now, fs) ==
    LET starts == {i \in from..Len(s) : DateMonthDay(s, i) # <<0, 0>>}
    IN  IF starts = {} THEN <<Slice(s, from, Len(s) + 1), fs>>
        ELSE LET i == Min(starts)
                 r == date_replacer(s, i, year_now)
                 rest == DateSubFrom(s, r[3], year_now, Append(fs, r[2]))
             IN  <<Slice(s, from, i) \o r[1] \o rest[1], rest[2]>>

normalize_date_formats(q, year_now) == DateSubFrom(q, 1, year_now, <<>>)

-----------------------------------------------------------------------------
(* Heuristic 4: validate_email_format                                       *)

\* [A-Za-z0-9._%+-]
EmailLocalChar == Letter \cup Digit \cup {".", "_", "%", "+", "-"}
\* [A-Za-z0-9.-]
EmailDomainChar == Letter \cup Digit \cup {".", "-"}
\* [A-Z|a-z]
EmailTldChar == Letter \cup {"|"}

\* the least position >= i whose character is not in class (Len(s)+1 if none)
RunEnd(s, i, class) ==
    CHOOSE k \in i..(Len(s) + 1) :
        /\ (k = Len(s) + 1) \/ (s[k] \notin class)
        /\ \A j \in i..(k - 1) : s[j] \in class

\* email_pattern at position i: the position after the match, or 0.  The local
\* part runs to the '@'; the domain's greedy [A-Za-z0-9.-]+ gives back characters
\* until a '.' follows (the last usable '.' wins), and the greedy {2,} gives back
\* characters until \b holds.
EmailEnd(s, i) ==
    LET at == RunEnd(s, i, EmailLocalChar)
        r == RunEnd(s, at + 1, EmailDomainChar)
        ends(p) == {e \in (p + 3)..RunEnd(s, p + 1, EmailTldChar) : IsWordBoundary(s, e)}
        dots == {p \in (at + 2)..(r - 1) : s[p] = "." /\ ends(p) # {}}
    IN  IF /\ i <= Len(s)
           /\ IsWordBoundary(s, i)
           /\ at > i
           /\ at <= Len(s)
           /\ s[at] = "@"
           /\ dots # {}
        THEN Max(ends(Max(dots)))
        ELSE 0

\* re.findall(email_pattern, query) from position from (line 113)
RECURSIVE EmailFindAllFrom(_, _)
EmailFindAllFrom(s, from) ==
    LET starts == {i \in from..Len(s) : EmailEnd(s, i) # 0}
    IN  IF starts = {} THEN <<>>
        ELSE LET i == Min(starts)
             IN  <<Slice(s, i, EmailEnd(s, i))>> \o EmailFindAllFrom(s, EmailEnd(s, i))

common_domains == <<
    <<S("gmal.com"), S("gmail.com")>>,
    <<S("gamil.com"), S("gmail.com")>>,
    <<S("gmial.com"), S("gmail.com")>>,
    <<S("hotmial.com"), S("hotmail.com")>>,
    <<S("yaho.com"), S("yahoo.com")>>,
    <<S("outlok.com"), S("outlook.com")>> >>

\* email.split('@')[1] of a matched email
EmailDomain(email) ==
    LET at == Min({k \in 1..Len(email) : email[k] = "@"})
    IN  Slice(email, at + 1, Len(email) + 1)

EmailFix(email, corrected_email) ==
    S("Corrected email domain: '") \o email \o S("' to '") \o corrected_email \o S("'")

\* the inner loop of lines 128-132 for one email, from entry k of common_domains on
RECURSIVE email_domains_loop(_, _, _, _)
email_domains_loop(k, email, validated_query, fs) ==
    IF k > Len(common_domains) THEN <<validated_query, fs>>
    ELSE LET typo_domain == common_domains[k][1]
             correct_domain == common_domains[k][2]
             corrected_email == Replace(email, typo_domain, correct_domain)
         IN  IF EmailDomain(email) = typo_domain
             THEN email_domains_loop(k + 1, email,
                                     Replace(validated_query, email, corrected_email),
                                     Append(fs, EmailFix(email, corrected_email)))
             ELSE email_domains_loop(k + 1, email, validated_query, fs)

\* the loop of lines 116-132 over the emails found
RECURSIVE validate_email_loop(_, _, _)
validate_email_loop(emails, validated_query, fs) ==
    IF emails = <<>> THEN <<validated_query, fs>>
    ELSE LET r == email_domains_loop(1, Head(emails), validated_query, fs)
         IN  validate_email_loop(Tail(emails), r[1], r[2])

validate_email_format(q) == validate_email_loop(EmailFindAllFrom(q, 1), q, <<>>)

-----------------------------------------------------------------------------
(* Heuristic 5: detect_unsafe_commands                                      *)

unsafe_patterns == <<
    S("\\brm\\s+-rf\\b"),
    S("\\bsudo\\b"),
    S("\\bchmod\\b\\s+777"),
    S("\\bdd\\b.*\\bif=/dev\\b"),
    S("\\bmkfs\\b"),
    S("\\bformat\\b.*\\bdisk\\b") >>

\* lit \s+ lit2 at position i (re.IGNORECASE): the position after the match, or 0
SpacedAt(s, i, lit, lit2) ==
    LET w == RunEnd(s, i + Len(lit), Whitespace)
    IN  IF /\ LitAt(s, i, lit, TRUE)
           /\ w > i + Len(lit)
           /\ LitAt(s, w, lit2, TRUE)
        THEN w + Len(lit2)
        ELSE 0

\* \b w1 \b .* \b w2 \b somewhere ('.' matches anything but a newline)
WordThenWord(s, w1, w2) ==
    \E i \in 1..Len(s) :
        /\ WordAt(s, i, w1)
        /\ \E j \in (i + Len(w1))..Len(s) :
              /\ WordAt(s, j, w2)
              /\ \A k \in (i + Len(w1))..(j - 1) : s[k] # "\n"

\* re.search(unsafe_patterns[k], query, re.IGNORECASE)
UnsafeSearch(k, s) ==
    CASE k = 1 -> \E i \in 1..Len(s) :
                     /\ IsWordBoundary(s, i)
                     /\ SpacedAt(s, i, S("rm"), S("-rf")) # 0
                     /\ IsWordBoundary(s, SpacedAt(s, i, S("rm"), S("-rf")))
      [] k = 2 -> WordSearch(s, S("sudo"))
      [] k = 3 -> \E i \in 1..Len(s) :
                     /\ WordAt(s, i, S("chmod"))
                     /\ SpacedAt(s, i, S("chmod"), S("777")) # 0
      [] k = 4 -> WordThenWord(s, S("dd"), S("if=/dev"))
      [] k = 5 -> WordSearch(s, S("mkfs"))
      [] k = 6 -> WordThenWord(s, S("format"), S("disk"))

UnsafeFix(pattern) == S("WARNING: Potentially unsafe command detected: ") \o pattern

\* detect_unsafe_commands leaving the loop at the first pattern found
detect_unsafe_commands_first_only(q) ==
    LET found == {k \in 1..Len(unsafe_patterns) : UnsafeSearch(k, q)}
    IN  <<q, IF found = {} THEN <<>> ELSE <<UnsafeFix(unsafe_patterns[Min(found)])>> >>

\* the loop of lines 151-153 from pattern k on
RECURSIVE detect_unsafe_loop(_, _, _)
detect_unsafe_loop(k, q, fs) ==
    IF k > Len(unsafe_patterns) THEN fs
    ELSE detect_unsafe_loop(k + 1, q,
            IF UnsafeSearch(k, q) THEN Append(fs, UnsafeFix(unsafe_patterns[k])) ELSE fs)

detect_unsafe_commands(q) == <<q, detect_unsafe_loop(1, q, <<>>)>>

-----------------------------------------------------------------------------
(* Heuristic 6: validate_urls                                               *)

\* one round of (?:[-\w.]|(?:%[\da-fA-F]{2})) can start at position k.  The two
\* hex digits after a '%' are \w themselves, so the greedy repetition ends at the
\* first position where no round can start.
UrlCharAt(s, k) ==
    \/ s[k] \in WordChar \cup {"-", "."}
    \/ /\ s[k] = "%"
       /\ k + 2 <= Len(s)
       /\ s[k + 1] \in HexDigit
       /\ s[k + 2] \in HexDigit

\* url_pattern at position i: the position after the match, or 0
UrlEnd(s, i) ==
    LET body == IF LitAt(s, i, S("https://"), FALSE) THEN i + 8
                ELSE IF LitAt(s, i, S("http://"), FALSE) THEN i + 7
                ELSE 0
        e == CHOOSE k \in body..(Len(s) + 1) :
                 /\ (k = Len(s) + 1) \/ ~UrlCharAt(s, k)
                 /\ \A j \in body..(k - 1) : UrlCharAt(s, j)
    IN  IF body # 0 /\ e > body THEN e ELSE 0

\* re.findall(url_pattern, query) from position from (line 164)
RECURSIVE UrlFindAllFrom(_, _)
UrlFindAllFrom(s, from) ==
    LET starts == {i \in from..Len(s) : UrlEnd(s, i) # 0}
    IN  IF starts = {} THEN <<>>
        ELSE LET i == Min(starts)
             IN  <<Slice(s, i, UrlEnd(s, i))>> \o UrlFindAllFrom(s, UrlEnd(s, i))

suspicious_patterns == <<
    S("malware"), S("phish"), S("hack"), S("crack"), S("warez"), S("porn"), S("xxx") >>

FILTERED_URL == S("[FILTERED_URL]")

UrlFix(pattern) == S("Removed suspicious URL containing '") \o pattern \o S("'")

\* the patterns of suspicious_patterns that re.search finds in url, re.IGNORECASE
SuspiciousIn(url) ==
    {k \in 1..Len(suspicious_patterns) : Contains(url, suspicious_patterns[k], TRUE)}

\* the loop of lines 167-183 over the urls found: the first pattern found decides
RECURSIVE validate_urls_loop(_, _, _)
validate_urls_loop(urls, clean_query, fs) ==
    IF urls = <<>> THEN <<clean_query, fs>>
    ELSE LET url == Head(urls)
         IN  IF SuspiciousIn(url) # {}
             THEN validate_urls_loop(Tail(urls), Replace(clean_query, url, FILTERED_URL),
                      Append(fs, UrlFix(suspicious_patterns[Min(SuspiciousIn(url))])))
             ELSE validate_urls_loop(Tail(urls), clean_query, fs)

\* validate_urls without the break of line 183: every pattern found is recorded
RECURSIVE validate_urls_no_break_loop(_, _, _)
validate_urls_no_break_loop(urls, clean_query, fs) ==
    IF urls = <<>> THEN <<clean_query, fs>>
    ELSE LET url == Head(urls)
             found == SuspiciousIn(url)
             recs == [n \in 1..Cardinality(found) |->
                        UrlFix(suspicious_patterns[
                            CHOOSE k \in found : Cardinality({j \in found : j <= k}) = n])]
         IN  IF found # {}
             THEN validate_urls_no_break_loop(Tail(urls),
                      Replace(clean_query, url, FILTERED_URL), fs \o recs)
             ELSE validate_urls_no_break_loop(Tail(urls), clean_query, fs)

validate_urls_no_break(q) == validate_urls_no_break_loop(UrlFindAllFrom(q, 1), q, <<>>)

validate_urls(q) == validate_urls_loop(UrlFindAllFrom(q, 1), q, <<>>)

-----------------------------------------------------------------------------
(* Heuristic 7: normalize_numeric_values                                    *)

\* [$...]: of the four symbols of line 193 the ASCII one
CurrencySymbol == {"$"}

\* (?:,\d{3})+ at position p, greedy: the number of groups taken
CommaGroups(s, p) ==
    LET group(g) == LitAt(s, p + 4 * g, <<",">>, FALSE) /\ AllDigits(s, p + 4 * g + 1, 3)
    IN  Max({k \in 0..(Len(s) \div 4) : \A g \in 0..(k - 1) : group(g)})

\* (\d{1,3}(?:,\d{3})+|\d+) at position p: the position after the match, or 0.
\* The first alternative takes three digits before two before one, and needs a
\* group of thousands; the second takes every digit.
CurrencyIntEnd(s, p) ==
    LET alt1 == {n \in 1..3 : AllDigits(s, p, n) /\ CommaGroups(s, p + n) > 0}
        n1 == Max(alt1)
    IN  IF alt1 # {} THEN p + n1 + 4 * CommaGroups(s, p + n1)
        ELSE IF AllDigits(s, p, 1) THEN RunEnd(s, p, Digit)
        ELSE 0

\* currency_pattern at position i: the position after the match, or 0
CurrencyEnd(s, i) ==
    LET e == CurrencyIntEnd(s, i + 1)
    IN  IF i > Len(s) \/ s[i] \notin CurrencySymbol \/ e = 0 THEN 0
        ELSE IF LitAt(s, e, <<".">>, FALSE) /\ AllDigits(s, e + 1, 1)
             THEN RunEnd(s, e + 1, Digit)
             ELSE e

CurrencyFix(value, symbol, numeric_part) ==
    S("Normalized currency value: ") \o value \o S(" to ") \o <<symbol>> \o numeric_part

\* re.sub(currency_pattern, currency_replacer, query) from position from (line 204)
RECURSIVE CurrencySubFrom(_, _, _)
CurrencySubFrom(s, from, fs) ==
    LET starts == {i \in from..Len(s) : CurrencyEnd(s, i) # 0}
    IN  IF starts = {} THEN <<Slice(s, from, Len(s) + 1), fs>>
        ELSE LET i == Min(starts)
                 value == Slice(s, i, CurrencyEnd(s, i))
                 symbol == value[1]
                 numeric_part == Replace(Tail(value), <<",">>, <<>>)
                 rest == CurrencySubFrom(s, CurrencyEnd(s, i),
                             Append(fs, CurrencyFix(value, symbol, numeric_part)))
             IN  <<Slice(s, from, i) \o <<symbol>> \o numeric_part \o rest[1], rest[2]>>

normalize_numeric_values(q) == CurrencySubFrom(q, 1, <<>>)

-----------------------------------------------------------------------------
(* Heuristic 8: detect_pii                                                  *)

\* [-\s]? at position p, greedy: the position after it
SkipSep(s, p) == IF p <= Len(s) /\ s[p] \in Whitespace \cup {"-"} THEN p + 1 ELSE p

\* cc_pattern at position i: the position after the match, or 0
CardEnd(s, i) ==
    LET g2 == SkipSep(s, i + 4)
        g3 == SkipSep(s, g2 + 4)
        g4 == SkipSep(s, g3 + 4)
    IN  IF /\ IsWordBoundary(s, i)
           /\ AllDigits(s, i, 4)
           /\ AllDigits(s, g2, 4)
           /\ AllDigits(s, g3, 4)
           /\ AllDigits(s, g4, 4)
           /\ IsWordBoundary(s, g4 + 4)
        THEN g4 + 4
        ELSE 0

\* ssn_pattern at position i: the position after the match, or 0
SsnEnd(s, i) ==
    LET g2 == SkipSep(s, i + 3)
        g3 == SkipSep(s, g2 + 2)
    IN  IF /\ IsWordBoundary(s, i)
           /\ AllDigits(s, i, 3)
           /\ AllDigits(s, g2, 2)
           /\ AllDigits(s, g3, 4)
           /\ IsWordBoundary(s, g3 + 4)
        THEN g3 + 4
        ELSE 0

REDACTED_CARD_NUMBER == S("[REDACTED_CARD_NUMBER]")
REDACTED_SSN == S("[REDACTED_SSN]")

\* re.sub(cc_pattern, "[REDACTED_CARD_NUMBER]", query) from position from
RECURSIVE CardSubFrom(_, _)
CardSubFrom(s, from) ==
    LET starts == {i \in from..Len(s) : CardEnd(s, i) # 0}
    IN  IF starts = {} THEN Slice(s, from, Len(s) + 1)
        ELSE LET i == Min(starts)
             IN  Slice(s, from, i) \o REDACTED_CARD_NUMBER \o CardSubFrom(s, CardEnd(s, i))

\* re.sub(ssn_pattern, "[REDACTED_SSN]", query) from position from
RECURSIVE SsnSubFrom(_, _)
SsnSubFrom(s, from) ==
    LET starts == {i \in from..Len(s) : SsnEnd(s, i) # 0}
    IN  IF starts = {} THEN Slice(s, from, Len(s) + 1)
        ELSE LET i == Min(starts)
             IN  Slice(s, from, i) \o REDACTED_SSN \o SsnSubFrom(s, SsnEnd(s, i))

detect_pii(q) ==
    LET card == \E i \in 1..Len(q) : CardEnd(q, i) # 0
        q1 == IF card THEN CardSubFrom(q, 1) ELSE q
        fs1 == IF card THEN <<S("Redacted potential credit card number")>> ELSE <<>>
        ssn == \E i \in 1..Len(q1) : SsnEnd(q1, i) # 0
    IN  IF ssn
        THEN <<SsnSubFrom(q1, 1), Append(fs1, S("Redacted potential Social Security Number"))>>
        ELSE <<q1, fs1>>

-----------------------------------------------------------------------------
(* Heuristic 9: remove_excessive_whitespace                                 *)

IsKept(c) == c # ""

\* re.sub(r'\s+', ' ', s): the first character of each run of whitespace becomes
\* a space, the others of the run go
CollapseWhitespace(s) ==
    SelectSeq([i \in 1..Len(s) |->
                  IF s[i] \notin Whitespace THEN s[i]
                  ELSE IF i = 1 \/ s[i - 1] \notin Whitespace THEN " "
                  ELSE ""],
              IsKept)

\* str.strip()
strip(s) ==
    IF \A i \in 1..Len(s) : s[i] \in Whitespace THEN <<>>
    ELSE LET first == CHOOSE i \in 1..Len(s) :
                          s[i] \notin Whitespace /\ \A j \in 1..(i - 1) : s[j] \in Whitespace
             last == CHOOSE i \in 1..Len(s) :
                         s[i] \notin Whitespace /\ \A j \in (i + 1)..Len(s) : s[j] \in Whitespace
         IN  SubSeq(s, first, last)

\* re.sub(r'\s\s', ' ', s): within a run of whitespace each pair becomes a space,
\* and a last character without a partner stays
CollapseWhitespacePairs(s) ==
    SelectSeq([i \in 1..Len(s) |->
                  IF s[i] \notin Whitespace THEN s[i]
                  ELSE LET start == CHOOSE j \in 1..i :
                                        /\ \A k \in j..i : s[k] \in Whitespace
                                        /\ (j = 1) \/ (s[j - 1] \notin Whitespace)
                       IN  IF (i - start) % 2 = 1 THEN ""
                           ELSE IF i < Len(s) /\ s[i + 1] \in Whitespace THEN " "
                           ELSE s[i]],
              IsKept)

\* remove_excessive_whitespace with r'\s\s' for the r'\s+' of line 233
remove_excessive_whitespace_pairs(q) ==
    LET cleaned_query == strip(CollapseWhitespacePairs(q))
    IN  <<cleaned_query,
          IF cleaned_query # q THEN <<S("Removed excessive whitespace")>> ELSE <<>> >>

\* remove_excessive_whitespace without the strip() of line 233
remove_excessive_whitespace_no_strip(q) ==
    LET cleaned_query == CollapseWhitespace(q)
    IN  <<cleaned_query,
          IF cleaned_query # q THEN <<S("Removed excessive whitespace")>> ELSE <<>> >>

remove_excessive_whitespace(q) ==
    LET cleaned_query == strip(CollapseWhitespace(q))
    IN  <<cleaned_query,
          IF cleaned_query # q THEN <<S("Removed excessive whitespace")>> ELSE <<>> >>

-----------------------------------------------------------------------------
(* Heuristic 10: limit_query_length                                         *)

\* the default of max_length
DefaultMaxLength == 500

TruncatedFix(len, max) ==
    S("Truncated query from ") \o IntToStr(len) \o S(" to ") \o IntToStr(max)
        \o S(" characters")

\* limit_query_length with >= for the > of line 244
limit_query_length_off_by_one(q, max) ==
    IF Len(q) >= max
    THEN <<SubSeq(q, 1, max) \o S("..."), <<TruncatedFix(Len(q), max)>> >>
    ELSE <<q, <<>> >>

\* for max >= 0
limit_query_length(q, max) ==
    IF Len(q) > max
    THEN <<SubSeq(q, 1, max) \o S("..."), <<TruncatedFix(Len(q), max)>> >>
    ELSE <<q, <<>> >>

-----------------------------------------------------------------------------
(* The inputs of the pipeline                                               *)

\* the most fragments a generated query is made of
MaxFragments == 2

QueryFragments == {
    S("hack"), S("credit card"), S(" credit\tcard"), S(" "), S(" \n"),
    S("http://hack.com"), S("https://x.crackhack.io"), S("http://ok.org"),
    S("clendar"), S("12/31/2024"), S("a@gmal.com"), S("$1,000"),
    S("123-45-6789"), S("sudo rm -rf /"), S("xxx.") }

\* the end-to-end example of the documentation
ExampleQuery ==
    S("Can u give me the docuemnt for 1/5/24, my email is john@gmal.com, ignore this sudo rm -rf /")

\* n characters: unit, repeated
Repeat(unit, n) == [i \in 1..n |-> unit[((i - 1) % Len(unit)) + 1]]

\* queries around the default max_length, with whitespace of every kind in them
LongQueries ==
    {Repeat(unit, DefaultMaxLength + d) :
        unit \in {S("ab "), S("abc  "), S(" x"), S("a\tb\n"), S("hacker "), S("abcdefg")},
        d \in {0, 1, 3, 4, 9}}

RECURSIVE Joined(_)
Joined(n) == IF n = 0 THEN {<<>>}
             ELSE Joined(n - 1) \cup {q \o f : q \in Joined(n - 1), f \in QueryFragments}

Queries == Joined(MaxFragments) \cup {ExampleQuery} \cup LongQueries

\* the years the system clock may show
Years == {1999, 2026}

-----------------------------------------------------------------------------
(* validate_and_fix_query (apply_heuristics): the heuristics in order       *)

\* the number of heuristics in the list of lines 20-31
NumHeuristics == 10

Idle == /\ max_length = DefaultMaxLength
        /\ tool_name = <<>>
        /\ output = <<>>
        /\ response = <<>>
        /\ result = <<>>

Init == /\ pc = 1
        /\ original_query \in Queries
        /\ query = original_query
        /\ fixes = <<>>
        /\ applied_fixes = <<>>
        /\ current_year \in Years
        /\ Idle

\* one round of the loop of lines 20-33: heuristic k returned r
Step(k, r) ==
    /\ pc = k
    /\ query' = r[1]
    /\ fixes' = r[2]
    /\ applied_fixes' = applied_fixes \o r[2]
    /\ pc' = k + 1
    /\ UNCHANGED <<original_query, current_year, max_length, tool_name, output,
                   response, result>>

FixTypos == Step(1, fix_typos(query))
RemoveBannedWords == Step(2, remove_banned_words(query))
NormalizeDateFormats == Step(3, normalize_date_formats(query, current_year))
ValidateEmailFormat == Step(4, validate_email_format(query))
DetectUnsafeCommands == Step(5, detect_unsafe_commands(query))
ValidateUrls == Step(6, validate_urls(query))
NormalizeNumericValues == Step(7, normalize_numeric_values(query))
DetectPii == Step(8, detect_pii(query))
RemoveExcessiveWhitespace == Step(9, remove_excessive_whitespace(query))
LimitQueryLength == Step(10, limit_query_length(query, max_length))

Next == \/ FixTypos
        \/ RemoveBannedWords
        \/ NormalizeDateFormats
        \/ ValidateEmailFormat
        \/ DetectUnsafeCommands
        \/ ValidateUrls
        \/ NormalizeNumericValues
        \/ DetectPii
        \/ RemoveExcessiveWhitespace
        \/ LimitQueryLength

Spec == Init /\ [][Next]_vars

\* validate_and_fix_query has returned <<query, applied_fixes>>
Returned == pc = NumHeuristics + 1

-----------------------------------------------------------------------------
(* Claims about the pipeline                                                *)

\* the number of entries of seq equal to x
Count(seq, x) == Cardinality({i \in 1..Len(seq) : seq[i] = x})

\* the system year is in the 2000s
InThe2000s == current_year \in 2000..2099

\* C1: for every query that holds a denylisted word as a whole word (whatever the
\* case), the processed query the pipeline returns never holds that word, and the
\* fix list holds exactly one 'Removed banned word' record for it.
C1_BannedWordNeverInOutput ==
    Returned =>
        \A k \in 1..Len(banned_words) :
            WordSearch(original_query, banned_words[k]) =>
                /\ ~WordSearch(query, banned_words[k])
                /\ Count(applied_fixes, S("Removed banned word: '") \o banned_words[k] \o S("'")) = 1

\* C7: the pipeline on the example query, in the 2000s, returns the query with
\* docuemnt, the date and the email domain corrected and "sudo rm -rf /" intact,
\* and the fix list: one typo record, one date record, one email record, the
\* rm -rf warning and the sudo warning, and nothing else.
C7_EndToEndExample ==
    (Returned /\ original_query = ExampleQuery /\ InThe2000s) =>
        /\ query = S("Can u give me the document for 2024-01-05, my email is john@gmail.com, ignore this sudo rm -rf /")
        /\ applied_fixes = <<
               S("Corrected typo: 'docuemnt' to 'document'"),
               S("Normalized date format: 01/05/24 to 2024-01-05"),
               S("Corrected email domain: 'john@gmal.com' to 'john@gmail.com'"),
               S("WARNING: Potentially unsafe command detected: \\brm\\s+-rf\\b"),
               S("WARNING: Potentially unsafe command detected: \\bsudo\\b") >>

C7_Witness ==
    /\ Returned
    /\ original_query = ExampleQuery
    /\ InThe2000s
    /\ Len(applied_fixes) = 5
    /\ Contains(query, S("sudo rm -rf /"), FALSE)

\* the URLs of s that hold a suspicious keyword, in the order found
SuspiciousUrls(s) == SelectSeq(UrlFindAllFrom(s, 1), LAMBDA u : SuspiciousIn(u) # {})

\* the first keyword of the list that url holds
FirstKeyword(url) == suspicious_patterns[Min(SuspiciousIn(url))]

\* C9, as claimed: the pipeline replaces every URL of the query that holds a
\* suspicious keyword by "[FILTERED_URL]" and records a 'Removed suspicious URL'
\* fix citing the first keyword that matches, although typo correction and
\* banned-word filtering ran before.
C9_SuspiciousUrlOfQueryFiltered ==
    Returned =>
        LET urls == SuspiciousUrls(original_query)
        IN  \A n \in 1..Len(urls) :
                /\ Contains(query, FILTERED_URL, FALSE)
                /\ ~Contains(query, urls[n], FALSE)
                /\ Count(applied_fixes,
                         S("Removed suspicious URL containing '") \o FirstKeyword(urls[n]) \o S("'")) >= 1

\* the query as heuristics 1 to 5 leave it: what validate_urls is given
QueryBeforeUrls ==
    validate_email_format(
        normalize_date_formats(
            remove_banned_words(fix_typos(original_query)[1])[1], current_year)[1])[1]

\* C9, amended: when validate_urls has run, no URL it found with a suspicious
\* keyword in the query it was given (the query as heuristics 1 to 5 left it) is
\* left, the placeholder "[FILTERED_URL]" stands in the query, and its fixes are
\* one 'Removed suspicious URL' record per such URL, in the order found, each
\* citing the first keyword of the list that the URL holds.
C9_SuspiciousUrlFilteredByStep ==
    (pc = 7) =>
        LET urls == SuspiciousUrls(QueryBeforeUrls)
        IN  /\ \A n \in 1..Len(urls) :
                   /\ ~Contains(query, urls[n], FALSE)
                   /\ Contains(query, FILTERED_URL, FALSE)
            /\ fixes = [n \in 1..Len(urls) |->
                           S("Removed suspicious URL containing '") \o FirstKeyword(urls[n]) \o S("'")]
            /\ (urls = <<>> => query = QueryBeforeUrls)

C9_Witness ==
    /\ pc = 7
    /\ fixes = <<S("Removed suspicious URL containing 'hack'")>>
    /\ Contains(query, FILTERED_URL, FALSE)
    /\ Contains(original_query, S("crackhack"), FALSE)
    /\ Contains(original_query, S("http://hack.com"), FALSE)
    /\ Contains(query, S("http://[FILTERED].com"), FALSE)

\* C10: whatever the query, the processed query has at most 503 characters, and
\* its only whitespace is single spaces, each between two characters that are
\* not whitespace: also when the query was truncated.
C10_FinalForm ==
    Returned =>
        /\ Len(query) <= 503
        /\ \A i \in 1..Len(query) :
               query[i] \in Whitespace =>
                   /\ query[i] = " "
                   /\ i > 1
                   /\ i < Len(query)
                   /\ query[i - 1] \notin Whitespace
                   /\ query[i + 1] \notin Whitespace

\* a query that was truncated right after a space
C10_Witness ==
    /\ Returned
    /\ Len(original_query) > DefaultMaxLength
    /\ fixes # <<>>
    /\ Len(query) = 503
    /\ query[DefaultMaxLength] = " "
    /\ \E i \in 1..Len(original_query) : original_query[i] \in {"\t", "\n"}

-----------------------------------------------------------------------------
(* Direct calls of single heuristics.  The caller keeps its argument in      *)
(* original_query; query and fixes are what the call returned.               *)

\* every string of at most n characters of alphabet
Strings(alphabet, n) == UNION {[1..k -> alphabet] : k \in 0..n}

\* a call of one heuristic on the argument arg
CallInit(args) ==
    /\ pc = "call"
    /\ original_query \in args
    /\ query = original_query
    /\ fixes = <<>>
    /\ applied_fixes = <<>>
    /\ tool_name = <<>>
    /\ output = <<>>
    /\ response = <<>>
    /\ result = <<>>

\* the call at label from returned r
CallReturn(from, to, r) ==
    /\ pc = from
    /\ query' = r[1]
    /\ fixes' = r[2]
    /\ pc' = to
    /\ UNCHANGED <<original_query, applied_fixes, current_year, max_length, tool_name,
                   output, response, result>>

(* normalize_date_formats                                                    *)

DateQueries ==
    {pre \o month \o <<"/">> \o day \o <<"/">> \o year \o post :
        pre \in {<<>>, S("on ")},
        month \in {S("1"), S("12"), S("03")},
        day \in {S("5"), S("31")},
        year \in {S("24"), S("99"), S("2024"), S("1999")},
        post \in {<<>>, S("."), S(" and 2/2/22")}}

InitDate == CallInit(DateQueries) /\ current_year \in Years /\ max_length = DefaultMaxLength

CallNormalizeDateFormats ==
    CallReturn("call", "done", normalize_date_formats(query, current_year))

SpecDate == InitDate /\ [][CallNormalizeDateFormats]_vars

\* s is exactly one date M/D/Y with m, d and y digits
IsDate(s, m, d, y) ==
    /\ Len(s) = m + d + y + 2
    /\ AllDigits(s, 1, m)
    /\ s[m + 1] = "/"
    /\ AllDigits(s, m + 2, d)
    /\ s[m + d + 2] = "/"
    /\ AllDigits(s, m + d + 3, y)

\* C2: normalize_date_formats rewrites a date M/D/YY or M/D/YYYY to the zero-padded
\* YYYY-MM-DD: a four-digit year is kept with all its digits, a two-digit year gets
\* the first two digits of the system year in front; one fix record per date.
C2_DateRewrittenToIso ==
    (pc = "done") =>
        \A m \in 1..2, d \in 1..2, y \in {2, 4} :
            IsDate(original_query, m, d, y) =>
                LET month == SubSeq(original_query, 1, m)
                    day == SubSeq(original_query, m + 2, m + d + 1)
                    year == SubSeq(original_query, m + d + 3, m + d + y + 2)
                    pad(x) == IF Len(x) = 1 THEN <<"0">> \o x ELSE x
                    year4 == IF y = 4 THEN year
                             ELSE <<DigitSeq[(current_year \div 1000) + 1],
                                    DigitSeq[((current_year \div 100) % 10) + 1]>> \o year
                IN  /\ query = year4 \o <<"-">> \o pad(month) \o <<"-">> \o pad(day)
                    /\ Len(fixes) = 1

(* validate_email_format                                                     *)

EmailQueries ==
    {pre \o local \o <<"@">> \o domain \o post :
        pre \in {<<>>, S("to ")},
        local \in {S("a"), S("john"), S("yaho.com")},
        domain \in {S("yaho.com"), S("gmal.com"), S("gmail.com"), S("Gmal.com"), S("hotmial.com")},
        post \in {<<>>, S(", ok"), S(" ba@yaho.com.org"), S(" b@outlok.com")}}

InitEmail == CallInit(EmailQueries) /\ current_year \in {2026} /\ max_length = DefaultMaxLength

CallValidateEmailFormat == CallReturn("call", "done", validate_email_format(query))

SpecEmail == InitEmail /\ [][CallValidateEmailFormat]_vars

\* the canonical domain of a known-typo domain, or the domain itself
CanonicalDomain(domain) ==
    IF \E k \in 1..Len(common_domains) : common_domains[k][1] = domain
    THEN common_domains[CHOOSE k \in 1..Len(common_domains) : common_domains[k][1] = domain][2]
    ELSE domain

\* s from position from on, with the domain of each email whose domain is a
\* known-typo domain made canonical and nothing else changed
RECURSIVE OnlyDomainsCorrectedFrom(_, _)
OnlyDomainsCorrectedFrom(s, from) ==
    LET starts == {i \in from..Len(s) : EmailEnd(s, i) # 0}
    IN  IF starts = {} THEN Slice(s, from, Len(s) + 1)
        ELSE LET i == Min(starts)
                 e == EmailEnd(s, i)
                 at == RunEnd(s, i, EmailLocalChar)
             IN  Slice(s, from, at + 1) \o CanonicalDomain(Slice(s, at + 1, e))
                     \o OnlyDomainsCorrectedFrom(s, e)

\* the emails of s whose domain is a known-typo domain
TypoEmails(s) ==
    SelectSeq(EmailFindAllFrom(s, 1), LAMBDA em : CanonicalDomain(EmailDomain(em)) # EmailDomain(em))

\* C8: validate_email_format changes only the domain of the emails whose domain is
\* a known-typo domain, and records one fix for each: the local part of a corrected
\* email, the other emails and the rest of the query are unchanged.
C8_OnlyTypoDomainsChanged ==
    (pc = "done") =>
        /\ query = OnlyDomainsCorrectedFrom(original_query, 1)
        /\ Len(fixes) = Len(TypoEmails(original_query))

(* limit_query_length                                                        *)

\* the longest query given to limit_query_length
MaxQueryLen == 5
\* the largest max_length given to limit_query_length
MaxLimit == 4

InitLimit == /\ CallInit(Strings({"a", " ", "."}, MaxQueryLen))
             /\ current_year \in {2026}
             /\ max_length \in 0..MaxLimit

CallLimitQueryLength == CallReturn("call", "done", limit_query_length(query, max_length))

SpecLimit == InitLimit /\ [][CallLimitQueryLength]_vars

\* C5: for every query and every max_length >= 0, limit_query_length returns at most
\* max_length + 3 characters: the query itself and no fix when it has at most
\* max_length characters, else its first max_length characters, "..." and one
\* fix that states the original length and max_length.
C5_LengthCapped ==
    (pc = "done") =>
        /\ Len(query) <= max_length + 3
        /\ (Len(original_query) <= max_length) => (query = original_query /\ fixes = <<>>)
        /\ (Len(original_query) > max_length) =>
               /\ query = [i \in 1..(max_length + 3) |->
                              IF i <= max_length THEN original_query[i] ELSE "."]
               /\ fixes = <<S("Truncated query from ") \o IntToStr(Len(original_query))
                              \o S(" to ") \o IntToStr(max_length) \o S(" characters")>>

C5_Witness ==
    /\ pc = "done"
    /\ max_length > 0
    /\ Len(original_query) > max_length
    /\ Len(query) = max_length + 3
    /\ Len(fixes) = 1

(* remove_excessive_whitespace, and again on its own output                  *)

\* the longest query given to remove_excessive_whitespace
MaxWhitespaceLen == 5

InitWhitespace == /\ CallInit(Strings({"a", " ", "\t", "\n"}, MaxWhitespaceLen))
                  /\ current_year \in {2026}
                  /\ max_length = DefaultMaxLength

CallRemoveExcessiveWhitespace ==
    CallReturn("call", "once", remove_excessive_whitespace(query))

CallRemoveExcessiveWhitespaceAgain ==
    CallReturn("once", "twice", remove_excessive_whitespace(query))

NextWhitespace == CallRemoveExcessiveWhitespace \/ CallRemoveExcessiveWhitespaceAgain

SpecWhitespace == InitWhitespace /\ [][NextWhitespace]_vars

\* C6: remove_excessive_whitespace is idempotent: applied to its own output it
\* returns that string again and records no fix; the first application records
\* a fix exactly when it changed the string.
C6_WhitespaceIdempotent ==
    [][/\ (pc = "call") => ((fixes' # <<>>) <=> (query' # query))
       /\ (pc = "once") => (query' = query /\ fixes' = <<>>)]_vars

C6_Witness ==
    /\ pc = "twice"
    /\ query # original_query
    /\ Len(query) >= 3
    /\ \E i \in 1..Len(original_query) : original_query[i] = "\t"
    /\ fixes = <<>>

-----------------------------------------------------------------------------
(* json.loads and json.dumps, as validate_tool_output uses them (line 266).  *)
(* The outputs given hold no backslash, no control character but the        *)
(* whitespace of JSON, and no '.', 'e' or 'E' after a digit: strings have no *)
(* escapes and numbers are integers.                                        *)
(* A value is <<"string", s>>, <<"number", s>>, <<"literal", s>>,           *)
(* <<"array", values>> or <<"object", <<key, value>> pairs>>.               *)

\* sys.getrecursionlimit() of CPython: the scanner goes one level down for each
\* array or object it enters, and raises RecursionError at the limit
RecursionLimit == 1000

JsonWhitespace == {" ", "\t", "\n", "\r"}
JsonControl == {"\t", "\n", "\r", "\f"}

ParseOk(v, e) == [ok |-> TRUE, val |-> v, end |-> e]
ParseFail(exc) == [ok |-> FALSE, exc |-> exc]

CharAt(s, i, c) == i >= 1 /\ i <= Len(s) /\ s[i] = c

\* a string at position i, where a '"' stands
ParseString(s, i) ==
    LET closes == {k \in (i + 1)..Len(s) : s[k] = "\""}
        close == Min(closes)
    IN  IF closes = {} THEN ParseFail("JSONDecodeError")
        ELSE IF \E k \in (i + 1)..(close - 1) : s[k] \in JsonControl
        THEN ParseFail("JSONDecodeError")
        ELSE ParseOk(<<"string", Slice(s, i + 1, close)>>, close + 1)

\* NUMBER_RE, (-?(?:0|[1-9]\d*)), at position i: the position after it, or 0
NumberEnd(s, i) ==
    LET d == IF CharAt(s, i, "-") THEN i + 1 ELSE i
    IN  IF CharAt(s, d, "0") THEN d + 1
        ELSE IF d <= Len(s) /\ s[d] \in Digit THEN RunEnd(s, d, Digit)
        ELSE 0

\* dict[key] = value on a list of pairs kept in insertion order
DictPut(pairs, key, value) ==
    IF \E k \in 1..Len(pairs) : pairs[k][1] = key
    THEN [k \in 1..Len(pairs) |-> IF pairs[k][1] = key THEN <<key, value>> ELSE pairs[k]]
    ELSE Append(pairs, <<key, value>>)

RECURSIVE ParseValue(_, _, _)
RECURSIVE ParseElements(_, _, _, _)
RECURSIVE ParseMembers(_, _, _, _)

\* scan_once at position i, depth containers deep
ParseValue(s, i, depth) ==
    IF i > Len(s) THEN ParseFail("JSONDecodeError")
    ELSE IF s[i] = "\"" THEN ParseString(s, i)
    ELSE IF s[i] \in {"{", "["} /\ depth + 1 >= RecursionLimit THEN ParseFail("RecursionError")
    ELSE IF s[i] = "{" THEN
        LET j == RunEnd(s, i + 1, JsonWhitespace)
        IN  IF CharAt(s, j, "}") THEN ParseOk(<<"object", <<>> >>, j + 1)
            ELSE ParseMembers(s, j, depth + 1, <<>>)
    ELSE IF s[i] = "[" THEN
        LET j == RunEnd(s, i + 1, JsonWhitespace)
        IN  IF CharAt(s, j, "]") THEN ParseOk(<<"array", <<>> >>, j + 1)
            ELSE ParseElements(s, j, depth + 1, <<>>)
    ELSE IF LitAt(s, i, S("null"), FALSE) THEN ParseOk(<<"literal", S("null")>>, i + 4)
    ELSE IF LitAt(s, i, S("true"), FALSE) THEN ParseOk(<<"literal", S("true")>>, i + 4)
    ELSE IF LitAt(s, i, S("false"), FALSE) THEN ParseOk(<<"literal", S("false")>>, i + 5)
    ELSE IF NumberEnd(s, i) # 0 THEN ParseOk(<<"number", Slice(s, i, NumberEnd(s, i))>>, NumberEnd(s, i))
    ELSE IF LitAt(s, i, S("NaN"), FALSE) THEN ParseOk(<<"literal", S("NaN")>>, i + 3)
    ELSE IF LitAt(s, i, S("Infinity"), FALSE) THEN ParseOk(<<"literal", S("Infinity")>>, i + 8)
    ELSE IF LitAt(s, i, S("-Infinity"), FALSE) THEN ParseOk(<<"literal", S("-Infinity")>>, i + 9)
    ELSE ParseFail("JSONDecodeError")

\* the elements of an array from position i on, after the elements acc
ParseElements(s, i, depth, acc) ==
    LET v == ParseValue(s, i, depth)
        j == RunEnd(s, v.end, JsonWhitespace)
    IN  IF ~v.ok THEN v
        ELSE IF CharAt(s, j, "]") THEN ParseOk(<<"array", Append(acc, v.val)>>, j + 1)
        ELSE IF CharAt(s, j, ",")
        THEN ParseElements(s, RunEnd(s, j + 1, JsonWhitespace), depth, Append(acc, v.val))
        ELSE ParseFail("JSONDecodeError")

\* the members of an object from position i on, after the members acc
ParseMembers(s, i, depth, acc) ==
    IF ~CharAt(s, i, "\"") THEN ParseFail("JSONDecodeError")
    ELSE LET key == ParseString(s, i)
             colon == RunEnd(s, key.end, JsonWhitespace)
             v == ParseValue(s, RunEnd(s, colon + 1, JsonWhitespace), depth)
             j == RunEnd(s, v.end, JsonWhitespace)
         IN  IF ~key.ok THEN key
             ELSE IF ~CharAt(s, colon, ":") THEN ParseFail("JSONDecodeError")
             ELSE IF ~v.ok THEN v
             ELSE IF CharAt(s, j, "}")
             THEN ParseOk(<<"object", DictPut(acc, key.val[2], v.val)>>, j + 1)
             ELSE IF CharAt(s, j, ",")
             THEN ParseMembers(s, RunEnd(s, j + 1, JsonWhitespace), depth,
                               DictPut(acc, key.val[2], v.val))
             ELSE ParseFail("JSONDecodeError")

\* the number of '[' that s starts with
LeadingBrackets(s) == RunEnd(s, 1, {"["}) - 1

\* json.loads(s): a value, or the exception raised.  An output that starts with
\* RecursionLimit or more '[' takes the scanner to the limit before anything else
\* of it is read.
json_loads(s) ==
    IF LeadingBrackets(s) >= RecursionLimit THEN ParseFail("RecursionError")
    ELSE LET v == ParseValue(s, RunEnd(s, 1, JsonWhitespace), 0)
         IN  IF ~v.ok THEN v
             ELSE IF RunEnd(s, v.end, JsonWhitespace) # Len(s) + 1
             THEN ParseFail("JSONDecodeError")
             ELSE v

RECURSIVE json_dumps(_)
RECURSIVE JsonDumpsItems(_, _)

\* the items of an array or an object, joined by ", "
JsonDumpsItems(items, is_object) ==
    IF items = <<>> THEN <<>>
    ELSE LET item == IF is_object
                     THEN <<"\"">> \o Head(items)[1] \o S("\": ") \o json_dumps(Head(items)[2])
                     ELSE json_dumps(Head(items))
         IN  IF Len(items) = 1 THEN item
             ELSE item \o S(", ") \o JsonDumpsItems(Tail(items), is_object)

\* json.dumps(v)
json_dumps(v) ==
    CASE v[1] = "string" -> <<"\"">> \o v[2] \o <<"\"">>
      [] v[1] = "number" -> IF v[2] = S("-0") THEN S("0") ELSE v[2]
      [] v[1] = "literal" -> v[2]
      [] v[1] = "array" -> <<"[">> \o JsonDumpsItems(v[2], FALSE) \o <<"]">>
      [] v[1] = "object" -> <<"{">> \o JsonDumpsItems(v[2], TRUE) \o <<"}">>

-----------------------------------------------------------------------------
(* ResultHeuristics.validate_tool_output (and validate_result)               *)

\* Python's None
None == <<"None">>

Return(value) == [raised |-> FALSE, value |-> value]
Raise(exc) == [raised |-> TRUE, exc |-> exc]

\* str.endswith
EndsWith(s, suffix) == LitAt(s, Len(s) - Len(suffix) + 1, suffix, FALSE)

validate_tool_output(name, out) ==
    IF EndsWith(name, S("_json")) \/ Contains(name, S("json"), FALSE)
    THEN LET json_output == json_loads(out)
         IN  IF json_output.ok THEN Return(<<TRUE, json_dumps(json_output.val), <<>> >>)
             ELSE IF json_output.exc = "JSONDecodeError"
             THEN Return(<<FALSE, None, <<S("Invalid JSON output from ") \o name>> >>)
             ELSE Raise(json_output.exc)
    ELSE Return(<<TRUE, out, <<>> >>)

validate_result(name, out) == validate_tool_output(name, out)

-----------------------------------------------------------------------------
(* ResultHeuristics.check_for_hallucinations                                 *)

\* set(re.findall(r'\b[A-Za-z]+\b', s)): the runs of letters with \b on both sides
Terms(s) ==
    {Slice(s, i, RunEnd(s, i, Letter)) :
        i \in {k \in 1..Len(s) : /\ s[k] \in Letter
                                 /\ IsWordBoundary(s, k)
                                 /\ IsWordBoundary(s, RunEnd(s, k, Letter))}}

\* [A-Z][a-z]+ at position i: the position after it, or 0
CapitalizedEnd(s, i) ==
    IF i <= Len(s) /\ s[i] \in Upper /\ RunEnd(s, i + 1, Lower) > i + 1
    THEN RunEnd(s, i + 1, Lower)
    ELSE 0

\* (?:\s+[A-Z][a-z]+)* at position e, greedy: the position after it
RECURSIVE MoreCapitalizedEnd(_, _)
MoreCapitalizedEnd(s, e) ==
    LET w == RunEnd(s, e, Whitespace)
    IN  IF w > e /\ CapitalizedEnd(s, w) # 0 THEN MoreCapitalizedEnd(s, CapitalizedEnd(s, w))
        ELSE e

\* entities_pattern at position i: <<start of group 1, position after the match>>,
\* or <<0, 0>>.  The article is "the", or "an" before "a" (the pattern has no flag:
\* lower case only), then whitespace, then the capitalized words.
EntityAt(s, i) ==
    LET a == IF LitAt(s, i, S("the"), FALSE) THEN 3
             ELSE IF LitAt(s, i, S("an"), FALSE) /\ i + 2 <= Len(s) /\ s[i + 2] \in Whitespace THEN 2
             ELSE IF LitAt(s, i, S("a"), FALSE) THEN 1
             ELSE 0
        w == RunEnd(s, i + a, Whitespace)
    IN  IF a # 0 /\ w > i + a /\ CapitalizedEnd(s, w) # 0
        THEN <<w, MoreCapitalizedEnd(s, CapitalizedEnd(s, w))>>
        ELSE <<0, 0>>

\* re.findall(entities_pattern, response) from position from (line 290)
RECURSIVE EntitiesFrom(_, _)
EntitiesFrom(s, from) ==
    LET starts == {i \in from..Len(s) : EntityAt(s, i) # <<0, 0>>}
    IN  IF starts = {} THEN <<>>
        ELSE LET m == EntityAt(s, Min(starts))
             IN  <<Slice(s, m[1], m[2])>> \o EntitiesFrom(s, m[2])

HallucinationReason(entity) ==
    S("Response mentions '") \o entity \o S("' which was not in the original query")

check_for_hallucinations(q, resp) ==
    LET query_terms == Terms(lower(q))
        mentioned_entities == EntitiesFrom(resp, 1)
        unmentioned == SelectSeq(mentioned_entities,
                                 LAMBDA entity : Terms(lower(entity)) \cap query_terms = {})
        reasons == [n \in 1..Len(unmentioned) |-> HallucinationReason(unmentioned[n])]
    IN  <<Len(reasons) > 0, reasons>>

-----------------------------------------------------------------------------
(* Calls of validate_result                                                  *)

\* the longest generated tool output
MaxOutputLen == 3

ToolNames == {S("get_data_json"), S("json"), S("JSON_tool"), S("search"), <<>>}

ToolOutputs ==
    Strings({"[", "]", "{", "}", "\"", ":", ",", " ", "1", "0", "-", "a"}, MaxOutputLen)
    \cup {S("{\"a\":1}"), S("{invalid"), S("null"), S("true"), S("NaN"), S("-Infinity"),
          S("[1, [0, {\"a\": \"a\"}], null]"), S("{\"b\":1,\"a\":0, \"b\":[]}"),
          [i \in 1..RecursionLimit |-> "["],
          [i \in 1..(2 * RecursionLimit) |-> IF i <= RecursionLimit THEN "[" ELSE "]"]}

\* the variables of the query heuristics, unused
NoQuery == /\ original_query = <<>>
           /\ query = <<>>
           /\ fixes = <<>>
           /\ applied_fixes = <<>>
           /\ current_year \in {2026}
           /\ max_length = DefaultMaxLength

InitToolOutput == /\ pc = "call"
                  /\ tool_name \in ToolNames
                  /\ output \in ToolOutputs
                  /\ response = <<>>
                  /\ result = <<>>
                  /\ NoQuery

\* validate_result(tool_name, output) returns a triple or raises
ValidateResult ==
    /\ pc = "call"
    /\ LET r == validate_result(tool_name, output)
       IN  /\ pc' = IF r.raised THEN "raised" ELSE "returned"
           /\ result' = IF r.raised THEN <<r.exc>> ELSE r.value
    /\ UNCHANGED <<original_query, query, fixes, applied_fixes, current_year, max_length,
                   tool_name, output, response>>

SpecToolOutput == InitToolOutput /\ [][ValidateResult]_vars

\* C4: validate_result never raises, and returns (True, the JSON serialized again,
\* []) for a name that holds "json" and an output that parses, (False, None,
\* ["Invalid JSON output from <name>"]) for such a name and an output that does not
\* parse, and (True, the output, []) for every other name.
C4_ToolOutputThreeOutcomes ==
    (pc # "call") =>
        /\ pc = "returned"
        /\ IF Contains(tool_name, S("json"), FALSE)
           THEN IF json_loads(output).ok
                THEN result = <<TRUE, json_dumps(json_loads(output).val), <<>> >>
                ELSE result = <<FALSE, None, <<S("Invalid JSON output from ") \o tool_name>> >>
           ELSE result = <<TRUE, output, <<>> >>

-----------------------------------------------------------------------------
(* Calls of check_for_hallucinations                                         *)

WeatherQuery == S("tell me about the weather")

HallucinationQueries == {WeatherQuery, S("how tall is the Eiffel tower?"), <<>>}

HallucinationResponses ==
    {article \o gap \o phrase \o tail :
        article \in {S("The"), S("the"), S("a"), S("An"), S("see an")},
        gap \in {S(" "), S("  ")},
        phrase \in {S("Eiffel Tower"), S("Weather Report"), S("tower")},
        tail \in {<<>>, S(" is tall.")}}

InitHallucination == /\ pc = "call"
                     /\ original_query \in HallucinationQueries
                     /\ query = original_query
                     /\ response \in HallucinationResponses
                     /\ fixes = <<>>
                     /\ applied_fixes = <<>>
                     /\ current_year \in {2026}
                     /\ max_length = DefaultMaxLength
                     /\ tool_name = <<>>
                     /\ output = <<>>
                     /\ result = <<>>

CheckForHallucinations ==
    /\ pc = "call"
    /\ result' = check_for_hallucinations(query, response)
    /\ pc' = "returned"
    /\ UNCHANGED <<original_query, query, fixes, applied_fixes, current_year, max_length,
                   tool_name, output, response>>

SpecHallucination == InitHallucination /\ [][CheckForHallucinations]_vars

\* C3: check_for_hallucinations returns flagged = true iff it flagged a phrase, and
\* on the query "tell me about the weather" and the response "The Eiffel Tower is
\* tall." it returns flagged = true with a reason that names 'Eiffel Tower'.
C3_EiffelTowerFlagged ==
    (pc = "returned") =>
        /\ result[1] <=> (result[2] # <<>>)
        /\ (query = WeatherQuery /\ response = S("The Eiffel Tower is tall.")) =>
               /\ result[1]
               /\ \E n \in 1..Len(result[2]) : Contains(result[2][n], S("'Eiffel Tower'"), FALSE)

=============================================================================
